---- MODULE Spec2Model ----
(***************************************************************************)
(* gencommit: staged diff -> prompt -> model (live or mock) -> cleaned     *)
(* message -> accept / edit / reject -> git commit.                        *)
(*                                                                         *)
(* Text is modelled as a sequence of one-character strings, so that the    *)
(* string operations of the program (strip, replace, splitlines, dedent,   *)
(* substring tests) are computed, not assumed.  An optional value (Python  *)
(* None or a value) is the empty sequence or a one-element sequence.       *)
(***************************************************************************)
EXTENDS Integers, Sequences, FiniteSets, TLC

\* ---------------------------------------------------------------- bounds
\* how many times the review prompt may be read in one run
MaxInputs == 2
\* length of the raw model output given to the message cleaner (SpecClean)
MaxCleanLen == 4
\* length of the diff text and of the recent-commit text (SpecPrompt)
MaxDiffLen == 3
MaxRecentLen == 2

\* ------------------------------------------------------- string library
Min(S) == CHOOSE x \in S : \A y \in S : x <= y
Max(S) == CHOOSE x \in S : \A y \in S : x >= y

\* every string over alphabet A of length at most n
StringsUpTo(A, n) == UNION {[1..k -> A] : k \in 0..n}

\* the backtick character (a string literal cannot hold it)
BackTick == "BACKTICK"

\* the characters str.strip() removes when called without an argument
Whitespace == {" ", "\n", "\r", "\t"}

\* str.strip(chars): drop leading and trailing characters that are in chars
StripChars(s, chars) ==
    LET keep == {i \in 1..Len(s) : s[i] \notin chars}
    IN  IF keep = {} THEN <<>> ELSE SubSeq(s, Min(keep), Max(keep))

\* str.strip()
Strip(s) == StripChars(s, Whitespace)

\* str.startswith(p)
StartsWith(s, p) == Len(s) >= Len(p) /\ SubSeq(s, 1, Len(p)) = p

\* t in s
Contains(s, t) == \E i \in 1..(Len(s) - Len(t) + 1) : SubSeq(s, i, i + Len(t) - 1) = t

UpperAlpha == <<"A","B","C","D","E","F","G","H","I","J","K","L","M","N","O","P","Q","R","S","T",
                "U","V","W","X","Y","Z">>
LowerAlpha == <<"a","b","c","d","e","f","g","h","i","j","k","l","m","n","o","p","q","r","s","t",
                "u","v","w","x","y","z">>

\* str.lower() and str.upper(), character by character
LowerChar(c) ==
    IF \E i \in 1..Len(UpperAlpha) : UpperAlpha[i] = c
    THEN LowerAlpha[CHOOSE i \in 1..Len(UpperAlpha) : UpperAlpha[i] = c]
    ELSE c
UpperChar(c) ==
    IF \E i \in 1..Len(LowerAlpha) : LowerAlpha[i] = c
    THEN UpperAlpha[CHOOSE i \in 1..Len(LowerAlpha) : LowerAlpha[i] = c]
    ELSE c
Lower(s) == [i \in 1..Len(s) |-> LowerChar(s[i])]
Upper(s) == [i \in 1..Len(s) |-> UpperChar(s[i])]

\* sep.join(parts)
RECURSIVE Join(_, _)
Join(parts, sep) ==
    IF parts = <<>> THEN <<>>
    ELSE IF Len(parts) = 1 THEN parts[1]
    ELSE parts[1] \o sep \o Join(Tail(parts), sep)

\* the k-th smallest element of a set of numbers
Nth(S, k) == CHOOSE p \in S : Cardinality({q \in S : q < p}) = k - 1

\* str.split(sep) for a one-character separator: every piece is kept
SplitOn(s, sep) ==
    LET at == {i \in 1..Len(s) : s[i] = sep}
        n == Cardinality(at)
        First(k) == IF k = 1 THEN 1 ELSE Nth(at, k - 1) + 1
        Last(k) == IF k = n + 1 THEN Len(s) ELSE Nth(at, k) - 1
    IN  [k \in 1..(n + 1) |-> SubSeq(s, First(k), Last(k))]

\* str.splitlines(): breaks at \n, \r and \r\n, no empty last line
SplitLines(s) ==
    LET IsCRLF(i) == s[i] = "\r" /\ i < Len(s) /\ s[i + 1] = "\n"
        \* the last character of each line break
        at == {i \in 1..Len(s) : s[i] = "\n" \/ (s[i] = "\r" /\ ~IsCRLF(i))}
        n == Cardinality(at)
        First(k) == IF k = 1 THEN 1 ELSE Nth(at, k - 1) + 1
        Last(k) == IF k = n + 1 THEN Len(s)
                   ELSE LET e == Nth(at, k)
                        IN  IF e > First(k) /\ IsCRLF(e - 1) THEN e - 2 ELSE e - 1
        all == [k \in 1..(n + 1) |-> SubSeq(s, First(k), Last(k))]
    IN  IF all[n + 1] = <<>> THEN SubSeq(all, 1, n) ELSE all

\* str.split(): the maximal runs of non-whitespace characters
RECURSIVE SplitWordsFrom(_, _, _, _)
SplitWordsFrom(s, i, cur, acc) ==
    IF i > Len(s) THEN (IF cur = <<>> THEN acc ELSE Append(acc, cur))
    ELSE IF s[i] \in Whitespace
         THEN SplitWordsFrom(s, i + 1, <<>>, IF cur = <<>> THEN acc ELSE Append(acc, cur))
    ELSE SplitWordsFrom(s, i + 1, Append(cur, s[i]), acc)
SplitWords(s) == SplitWordsFrom(s, 1, <<>>, <<>>)

\* reading a text-mode file back: universal newlines turn \r\n and \r into \n
RECURSIVE UniversalNewlines(_)
UniversalNewlines(s) ==
    IF s = <<>> THEN <<>>
    ELSE IF Head(s) = "\r" /\ Len(s) >= 2 /\ s[2] = "\n"
         THEN <<"\n">> \o UniversalNewlines(SubSeq(s, 3, Len(s)))
    ELSE IF Head(s) = "\r" THEN <<"\n">> \o UniversalNewlines(Tail(s))
    ELSE <<Head(s)>> \o UniversalNewlines(Tail(s))

\* the characters textwrap.dedent counts as indentation
Blank == {" ", "\t"}

\* textwrap.dedent(text): a line of blanks only becomes empty, then the longest
\* common leading run of blanks of the other non-empty lines is removed from
\* every line that starts with it
Dedent(text) ==
    LET ls == SplitOn(text, "\n")
        norm == [i \in 1..Len(ls) |->
                    IF \A j \in 1..Len(ls[i]) : ls[i][j] \in Blank THEN <<>> ELSE ls[i]]
        Indent(l) == SubSeq(l, 1, Min({j \in 1..Len(l) : l[j] \notin Blank}) - 1)
        indents == {Indent(norm[i]) : i \in {k \in 1..Len(ls) : norm[k] # <<>>}}
        margin == IF indents = {} THEN <<>>
                  ELSE LET one == CHOOSE x \in indents : TRUE
                           ks == {k \in 0..Len(one) : \A y \in indents :
                                     Len(y) >= k /\ SubSeq(y, 1, k) = SubSeq(one, 1, k)}
                       IN  SubSeq(one, 1, Max(ks))
        cut == [i \in 1..Len(ls) |->
                    IF margin # <<>> /\ StartsWith(norm[i], margin)
                    THEN SubSeq(norm[i], Len(margin) + 1, Len(norm[i]))
                    ELSE norm[i]]
    IN  Join(cut, <<"\n">>)

\* ------------------------------------------------------- prompt builder
\* the f-string of build_prompt up to {recent_commits}
PromptHead ==
    <<"\n"," "," "," "," ","G","e","n","e","r","a","t","e"," ","a"," ","g","i","t"," ","c","o",
      "m","m","i","t"," ","m","e","s","s","a","g","e"," ","f","o","l","l","o","w","i","n","g",
      " ","t","h","i","s"," ","s","t","r","u","c","t","u","r","e",":","\n">>
    \o <<" "," "," "," ","1","."," ","F","i","r","s","t"," ","l","i","n","e",":"," ","c","o",
         "n","v","e","n","t","i","o","n","a","l"," ","c","o","m","m","i","t"," ","f","o","r",
         "m","a","t"," ","(","t","y","p","e",":"," ","c","o","n","c","i","s","e"," ","d","e",
         "s","c","r","i","p","t","i","o","n",")","\n">>
    \o <<" "," "," "," "," "," "," ","(","u","s","e"," ","t","y","p","e","s"," ","l","i","k",
         "e"," ","f","e","a","t",","," ","f","i","x",","," ","d","o","c","s",","," ","s","t",
         "y","l","e",","," ","r","e","f","a","c","t","o","r",","," ","p","e","r","f",","," ",
         "t","e","s","t",","," ","c","h","o","r","e",","," ","e","t","c",".",")","\n">>
    \o <<" "," "," "," ","2","."," ","O","p","t","i","o","n","a","l"," ","b","u","l","l","e",
         "t"," ","p","o","i","n","t","s"," ","f","o","r"," ","c","o","n","t","e","x","t",":",
         "\n">>
    \o <<" "," "," "," "," "," "," ","-"," ","K","e","e","p"," ","s","e","c","o","n","d"," ",
         "l","i","n","e"," ","b","l","a","n","k","\n">>
    \o <<" "," "," "," "," "," "," ","-"," ","B","e"," ","c","o","n","c","i","s","e"," ","a",
         "n","d"," ","c","l","e","a","r","\n">>
    \o <<" "," "," "," "," "," "," ","-"," ","A","v","o","i","d"," ","l","o","n","g"," ","e",
         "x","p","l","a","n","a","t","i","o","n","s","\n">>
    \o <<" "," "," "," "," "," "," ","-"," ","N","o"," ","f","l","u","f","f"," ","o","r"," ",
         "q","u","o","t","e","s","\n">>
    \o <<"\n">>
    \o <<" "," "," "," ","R","e","c","e","n","t"," ","c","o","m","m","i","t","s"," ","f","r",
         "o","m"," ","t","h","i","s"," ","r","e","p","o"," ","(","f","o","r"," ","s","t","y",
         "l","e"," ","r","e","f","e","r","e","n","c","e",")",":","\n">>
    \o <<" "," "," "," ">>
\* ... between {recent_commits} and {diff}
PromptMid ==
    <<"\n","\n"," "," "," "," ","H","e","r","e","'","s"," ","t","h","e"," ","c","u","r","r","e",
      "n","t"," ","d","i","f","f",":","\n"," "," "," "," ">>
\* ... after {diff}
PromptTail ==
    <<"\n"," "," "," "," ">>

build_prompt(d, recent) == Dedent(PromptHead \o recent \o PromptMid \o d \o PromptTail)

\* --------------------------------------------------------- mock client
NewFileMarker == <<"+","+","+"," ","b","/">>

call_claude_api_mock(p) ==
    LET lines == SplitLines(p)
        IsMarker(l) == StartsWith(l, NewFileMarker)
        IsDef(l) == Contains(l, <<"d","e","f"," ">>) /\ Contains(l, <<"(">>)
        IsFix(l) == Contains(Lower(l), <<"f","i","x">>)
        hits == {i \in 1..Len(lines) :
                    LET l == Strip(lines[i]) IN IsMarker(l) \/ IsDef(l) \/ IsFix(l)}
        summary ==
            IF hits = {} THEN <<"c","h","o","r","e",":"," ","u","p","d","a","t","e"," ","f","i",
                                "l","e","s">>
            ELSE LET l == Strip(lines[Min(hits)])
                 IN  IF IsMarker(l)
                     THEN <<"f","e","a","t",":"," ","u","p","d","a","t","e"," ">> \o SubSeq(l, Len(NewFileMarker) + 1, Len(l))
                     ELSE IF IsDef(l) THEN <<"f","e","a","t",":"," ","a","d","d","/","m","o","d","i",
                                             "f","y"," ","f","u","n","c","t","i","o","n">>
                     ELSE <<"f","i","x",":"," ","a","d","d","r","e","s","s"," ","b","u","g"," ",
                            "f","o","u","n","d"," ","i","n"," ","d","i","f","f">>
        todo == IF Contains(Upper(p), <<"T","O","D","O">>) THEN << <<"-"," ","A","d","d"," ","T","O","D","O"," ","i","t","e",
                                                           "m","s">> >> ELSE <<>>
        prints == IF Contains(p, <<"p","r","i","n","t","(">>)
                  THEN << <<"-"," ","A","d","j","u","s","t"," ","d","e","b","u","g","g","i","n",
                            "g"," ","p","r","i","n","t","s">> >> ELSE <<>>
        bullets == IF todo \o prints = <<>> THEN << <<"-"," ","S","e","e"," ","d","i","f","f"," ","f","o","r",
                                                      " ","d","e","t","a","i","l","s">> >>
                   ELSE todo \o prints
    IN  summary \o <<"\n", "\n">> \o Join(bullets, <<"\n">>)

\* ------------------------------------------------------ message cleaner
Fence == <<BackTick, BackTick, BackTick>>

\* str.replace("```", ""): left to right, non-overlapping
RECURSIVE RemoveFence(_)
RemoveFence(s) ==
    IF Len(s) < Len(Fence) THEN s
    ELSE IF SubSeq(s, 1, Len(Fence)) = Fence
         THEN RemoveFence(SubSeq(s, Len(Fence) + 1, Len(s)))
    ELSE <<Head(s)>> \o RemoveFence(Tail(s))

clean_commit_message(msg) ==
    Strip(StripChars(StripChars(RemoveFence(Strip(msg)), {"\""}), {"'"}))

\* ------------------------------------------------------ model selection
VendorName == <<"c","l","a","u","d","e">>
DefaultModel == <<"c","l","a","u","d","e","-","s","o","n","n","e","t","-","4","-","5","-","2",
                  "0","2","5","0","9","2","9">>
\* str(m) of an entry with none of the three keys
EmptyDictStr == <<"{","}">>

\* m.get("id") or m.get("name") or m.get("model") or str(m)
EntryName(m) ==
    IF m.id # <<>> THEN m.id
    ELSE IF m.name # <<>> THEN m.name
    ELSE IF m.model # <<>> THEN m.model
    ELSE EmptyDictStr

Preferences == << <<"s","o","n","n","e","t">>, <<"o","p","u","s">>, <<"h","a","i","k","u">> >>

\* faulty variant: the first listed vendor name, whatever its family
pick_first_vendor(ms) ==
    LET names == [i \in 1..Len(ms) |-> EntryName(ms[i])]
        vendor == {i \in 1..Len(names) : Contains(Lower(names[i]), VendorName)}
    IN  IF vendor # {} THEN <<names[Min(vendor)]>> ELSE <<>>

\* None is <<>>, a name n is <<n>>
pick_preferred_model(ms) ==
    LET names == [i \in 1..Len(ms) |-> EntryName(ms[i])]
        Match(k) == {i \in 1..Len(names) : Contains(Lower(names[i]), Preferences[k])
                                             /\ Contains(Lower(names[i]), VendorName)}
        prefs == {k \in 1..Len(Preferences) : Match(k) # {}}
        vendor == {i \in 1..Len(names) : Contains(Lower(names[i]), VendorName)}
    IN  IF prefs # {} THEN <<names[Min(Match(Min(prefs)))]>>
        ELSE IF vendor # {} THEN <<names[Min(vendor)]>>
        ELSE <<>>

\* ------------------------------------------------------------ the run
VARIABLES
    args,            \* argparse result: version, model (None or a string), dry_run
    use_mock,        \* args.mock or GENCOMMIT_MOCK == "1"
    api_key,         \* whether ANTHROPIC_API_KEY is set
    requests,        \* whether the requests library could be imported
    pc,              \* position of main()
    diff, new_files, recent_commits, prompt,
    models, chosen_model, raw_message, commit_message,
    typed,           \* the last line read at the review prompt, as typed
    choice,          \* that line, trimmed and lower-cased
    edited,          \* what open_editor returned
    message,         \* the argument of commit_changes
    calls,           \* subprocesses, HTTP requests and the mock call, in order
    stdout,          \* lines printed
    exit_code,       \* <<>> while running, <<n>> once the process has ended
    exit_msg,        \* the message sys.exit wrote to the error stream
    inputs_read      \* how many answers the review prompt has read

vars == <<args, use_mock, api_key, requests, pc, diff, new_files, recent_commits,
          prompt, models, chosen_model, raw_message, commit_message, typed, choice,
          edited, message, calls, stdout, exit_code, exit_msg, inputs_read>>

\* a value is falsy in Python when it is None or empty
Truthy(opt) == opt # <<>> /\ opt[1] # <<>>

\* --------------------------------------------------- what the world answers
ArgModels == {<<>>, << <<>> >>, << <<"m","y","-","m","o","d","e","l">> >>}

\* stdout of `git diff --cached`
DiffOutputs ==
    { <<>>,
      <<" ","\n">>,
      <<"-","-","-"," ","a","/","f","o","o",".","p","y","\n","+","+","+"," ","b","/","f","o",
        "o",".","p","y","\n","+","x"," ","="," ","1","\n">> }

\* stdout of `git diff --cached --name-only --diff-filter=A`
NewFilesOutputs == { <<>>, <<"n",".","p","y","\n">> }

\* content of a newly added file
FileContents == { <<"y"," ","="," ","2","\n">> }

\* stdout of `git log -3 --pretty=format:%B`
LogOutputs == { <<"f","e","a","t",":"," ","y">> }

ById(s) == [id |-> s, name |-> <<>>, model |-> <<>>]
ByName(s) == [id |-> <<>>, name |-> s, model |-> <<>>]
ByModel(s) == [id |-> <<>>, name |-> <<>>, model |-> s]
EmptyEntry == [id |-> <<>>, name |-> <<>>, model |-> <<>>]

\* answers of GET /v1/models: a failure (exception or status other than 200), or a
\* payload with its "models" and "data" lists
ListingResponses ==
    { [status |-> "error", models |-> <<>>, data |-> <<>>],
      [status |-> "ok", models |-> <<ById(<<"c","l","a","u","d","e","-","o","p","u","s","-","4">>), ById(<<"C","l","a","u","d","e","-","S","o","n","n","e","t","-",
                                                                      "4">>)>>,
                        data |-> <<>>],
      [status |-> "ok", models |-> <<>>,
                        data |-> <<ByName(<<"g","p","t","-","s","o","n","n","e","t">>), ById(<<"c","l","a","u","d","e","-","h","a","i","k","u","-","3">>),
                                   ById(<<"c","l","a","u","d","e","-","o","p","u","s","-","4">>)>>],
      [status |-> "ok", models |-> <<>>,
                        data |-> <<ById(<<"g","p","t","-","4">>), ByModel(<<"c","l","a","u","d","e","-","2">>)>>],
      [status |-> "ok", models |-> <<EmptyEntry, ById(<<"g","p","t","-","4">>)>>, data |-> <<>>] }

\* answers of POST /v1/messages: a transport failure, a malformed body, or the
\* text of the first content block
PostResponses ==
    { [status |-> "transport_error", text |-> <<>>],
      [status |-> "malformed", text |-> <<>>],
      [status |-> "ok", text |-> <<"f","e","a","t",":"," ","x","\n">>],
      [status |-> "ok", text |-> <<"'","\"","a","\"","'">>],
      [status |-> "ok", text |-> <<"a","\r","\n","b">>] }

\* lines typed at the review prompt
Inputs ==
    { <<"a">>, <<" ","A","c","c","e","p","t"," ">>, <<"e">>, <<"E","D","I","T">>,
      <<"r">>, <<"R">>, <<"r","e","j","e","c","t">>, <<"R","E","J","E","C","T">>,
      <<"x">> }

\* what the temporary file holds when the editor process has ended
EditorTexts == { <<" ","\"","c","\""," ","\n">> }

\* ------------------------------------------------------------- helpers
Call(cmd, arg, result) == [cmd |-> cmd, arg |-> arg, result |-> result]

\* faulty variant: the process ends with exit status 0 whatever went wrong
ExitSuccess(code, msg) ==
    /\ pc' = "exited"
    /\ exit_code' = <<0>>
    /\ exit_msg' = msg

\* (messages are written without the emoji that precedes them in the source, and
\* without the text of the exception or the name of the editor that follows)
\* sys.exit(msg): the message goes to the error stream, the exit status is 1;
\* sys.exit(0) and the return of main(): exit status 0
Exit(code, msg) ==
    /\ pc' = "exited"
    /\ exit_code' = <<code>>
    /\ exit_msg' = msg

Dashes == [i \in 1..40 |-> "-"]

\* ------------------------------------------------------------- collector
\* the content appended for the new files, in order
RECURSIVE append_new_files_to_diff(_, _, _)
append_new_files_to_diff(d, files, contents) ==
    IF files = <<>> THEN d
    ELSE append_new_files_to_diff(
             d \o <<"\n","-","-","-"," ","/","d","e","v","/","n","u","l","l","\n","+","+","+",
                    " ","b","/">> \o Head(files) \o <<"\n">>
               \o Head(contents) \o <<"\n">>,
             Tail(files), Tail(contents))

\* get_models_from_api: [] unless the status is 200, else "models" or "data" or []
ModelsOf(resp) ==
    IF resp.status # "ok" THEN <<>>
    ELSE IF resp.models # <<>> THEN resp.models
    ELSE resp.data

\* ------------------------------------------------------------- actions
Init ==
    /\ args \in [version : BOOLEAN, model : ArgModels, dry_run : BOOLEAN]
    /\ use_mock \in BOOLEAN
    /\ api_key \in BOOLEAN
    /\ requests \in BOOLEAN
    /\ pc = "start"
    /\ diff = <<>> /\ new_files = <<>> /\ recent_commits = <<>> /\ prompt = <<>>
    /\ models = <<>> /\ chosen_model = <<>> /\ raw_message = <<>>
    /\ commit_message = <<>> /\ typed = <<>> /\ choice = <<>> /\ edited = <<>> /\ message = <<>>
    /\ calls = <<>> /\ stdout = <<>> /\ exit_code = <<>> /\ exit_msg = ""
    /\ inputs_read = 0

\* --version, then the API key check
Start ==
    /\ pc = "start"
    /\ IF args.version
       THEN /\ stdout' = Append(stdout, <<"g","e","n","c","o","m","m","i","t"," ","1",".","0",".",
                                          "0">>)
            /\ Exit(0, "")
       ELSE IF ~use_mock /\ ~api_key
       THEN /\ Exit(1, "Error: ANTHROPIC_API_KEY not set. Use --mock for offline testing.")
            /\ UNCHANGED stdout
       ELSE /\ pc' = "get_staged_diff"
            /\ UNCHANGED <<stdout, exit_code, exit_msg>>
    /\ UNCHANGED <<args, use_mock, api_key, requests, diff, new_files, recent_commits,
                   prompt, models, chosen_model, raw_message, commit_message, typed, choice,
                   edited, message, calls, inputs_read>>

GetStagedDiff ==
    /\ pc = "get_staged_diff"
    /\ \E r \in {<<>>} \cup {<<o>> : o \in DiffOutputs} :
          IF r = <<>>
          THEN /\ calls' = Append(calls, Call("git diff --cached", <<>>, "failed"))
               /\ Exit(1, "Error getting git diff")
               /\ UNCHANGED diff
          ELSE /\ calls' = Append(calls, Call("git diff --cached", <<>>, "ok"))
               /\ diff' = r[1]
               /\ pc' = "get_new_staged_files"
               /\ UNCHANGED <<exit_code, exit_msg>>
    /\ UNCHANGED <<args, use_mock, api_key, requests, new_files, recent_commits, prompt,
                   models, chosen_model, raw_message, commit_message, typed, choice, edited,
                   message, stdout, inputs_read>>

GetNewStagedFiles ==
    /\ pc = "get_new_staged_files"
    /\ \E r \in {<<>>} \cup {<<o>> : o \in NewFilesOutputs} :
          IF r = <<>>
          THEN /\ calls' = Append(calls, Call("git diff --cached --name-only", <<>>, "failed"))
               /\ Exit(1, "Error getting new staged files")
               /\ UNCHANGED new_files
          ELSE /\ calls' = Append(calls, Call("git diff --cached --name-only", <<>>, "ok"))
               /\ new_files' = SplitWords(r[1])
               /\ pc' = "check_staged"
               /\ UNCHANGED <<exit_code, exit_msg>>
    /\ UNCHANGED <<args, use_mock, api_key, requests, diff, recent_commits, prompt,
                   models, chosen_model, raw_message, commit_message, typed, choice, edited,
                   message, stdout, inputs_read>>

\* faulty variant: the test on the diff is inverted
NothingStagedInverted(d, files) == Strip(d) # <<>> /\ files = <<>>

\* not diff.strip() and not new_files
NothingStaged(d, files) == Strip(d) = <<>> /\ files = <<>>

CheckStaged ==
    /\ pc = "check_staged"
    /\ IF NothingStaged(diff, new_files)
       THEN Exit(1, "No staged changes found. Use 'git add' first.")
       ELSE /\ pc' = IF new_files # <<>> THEN "append_new_files" ELSE "get_recent_commits"
            /\ UNCHANGED <<exit_code, exit_msg>>
    /\ UNCHANGED <<args, use_mock, api_key, requests, diff, new_files, recent_commits,
                   prompt, models, chosen_model, raw_message, commit_message, typed, choice,
                   edited, message, calls, stdout, inputs_read>>

AppendNewFiles ==
    /\ pc = "append_new_files"
    /\ \E reads \in [1..Len(new_files) -> {<<>>} \cup {<<c>> : c \in FileContents}] :
          IF \E i \in 1..Len(new_files) : reads[i] = <<>>
          THEN /\ Exit(1, "Error reading file")
               /\ UNCHANGED diff
          ELSE /\ diff' = append_new_files_to_diff(diff, new_files,
                              [i \in 1..Len(new_files) |-> reads[i][1]])
               /\ pc' = "get_recent_commits"
               /\ UNCHANGED <<exit_code, exit_msg>>
    /\ UNCHANGED <<args, use_mock, api_key, requests, new_files, recent_commits, prompt,
                   models, chosen_model, raw_message, commit_message, typed, choice, edited,
                   message, calls, stdout, inputs_read>>

\* a failing `git log` is swallowed: the recent commits are then the empty text
GetRecentCommits ==
    /\ pc = "get_recent_commits"
    /\ \E r \in {<<>>} \cup {<<o>> : o \in LogOutputs} :
          /\ calls' = Append(calls, Call("git log -3", <<>>,
                                         IF r = <<>> THEN "failed" ELSE "ok"))
          /\ recent_commits' = IF r = <<>> THEN <<>> ELSE r[1]
    /\ pc' = "build_prompt"
    /\ UNCHANGED <<args, use_mock, api_key, requests, diff, new_files, prompt, models,
                   chosen_model, raw_message, commit_message, typed, choice, edited, message,
                   stdout, exit_code, exit_msg, inputs_read>>

BuildPrompt ==
    /\ pc = "build_prompt"
    /\ prompt' = build_prompt(diff, recent_commits)
    /\ pc' = "resolve_model"
    /\ UNCHANGED <<args, use_mock, api_key, requests, diff, new_files, recent_commits,
                   models, chosen_model, raw_message, commit_message, typed, choice, edited,
                   message, calls, stdout, exit_code, exit_msg, inputs_read>>

\* --model when truthy; otherwise, in live mode, the listing and the preference
ResolveModel ==
    /\ pc = "resolve_model"
    /\ IF ~use_mock /\ ~Truthy(args.model)
       THEN IF ~requests
            THEN /\ models' = <<>>
                 /\ chosen_model' = <<DefaultModel>>
                 /\ UNCHANGED calls
            ELSE \E resp \in ListingResponses :
                    /\ calls' = Append(calls, Call("GET /v1/models", <<>>,
                                    IF resp.status = "ok" THEN "ok" ELSE "failed"))
                    /\ models' = ModelsOf(resp)
                    /\ chosen_model' =
                          IF Truthy(pick_preferred_model(ModelsOf(resp)))
                          THEN pick_preferred_model(ModelsOf(resp))
                          ELSE <<DefaultModel>>
       ELSE /\ chosen_model' = args.model
            /\ UNCHANGED <<models, calls>>
    /\ pc' = "call_model"
    /\ UNCHANGED <<args, use_mock, api_key, requests, diff, new_files, recent_commits,
                   prompt, raw_message, commit_message, typed, choice, edited, message, stdout,
                   exit_code, exit_msg, inputs_read>>

CallModel ==
    /\ pc = "call_model"
    /\ IF use_mock
       THEN /\ calls' = Append(calls, Call("call_claude_api_mock", <<>>, "ok"))
            /\ raw_message' = call_claude_api_mock(prompt)
            /\ pc' = "clean"
            /\ UNCHANGED <<exit_code, exit_msg>>
       ELSE IF ~requests
       THEN /\ Exit(1, "The 'requests' library is required. Install it with: pip install requests")
            /\ UNCHANGED <<calls, raw_message>>
       ELSE \E resp \in PostResponses :
               /\ calls' = Append(calls, Call("POST /v1/messages", chosen_model[1],
                               IF resp.status = "ok" THEN "ok" ELSE "failed"))
               /\ IF resp.status = "transport_error"
                  THEN Exit(1, "Network/API error") /\ UNCHANGED raw_message
                  ELSE IF resp.status = "malformed"
                  THEN Exit(1, "Error parsing API response") /\ UNCHANGED raw_message
                  ELSE /\ raw_message' = Strip(resp.text)
                       /\ pc' = "clean"
                       /\ UNCHANGED <<exit_code, exit_msg>>
    /\ UNCHANGED <<args, use_mock, api_key, requests, diff, new_files, recent_commits,
                   prompt, models, chosen_model, commit_message, typed, choice, edited, message,
                   stdout, inputs_read>>

Clean ==
    /\ pc = "clean"
    /\ commit_message' = clean_commit_message(raw_message)
    /\ stdout' = stdout \o << <<"\n","S","u","g","g","e","s","t","e","d"," ","c","o","m","m",
                                "i","t"," ","m","e","s","s","a","g","e",":","\n">> \o Dashes,
                              clean_commit_message(raw_message), Dashes >>
    /\ pc' = "PRESENTED"
    /\ UNCHANGED <<args, use_mock, api_key, requests, diff, new_files, recent_commits,
                   prompt, models, chosen_model, raw_message, typed, choice, edited, message,
                   calls, exit_code, exit_msg, inputs_read>>

\* ------------------------------------------------------------ review loop
AcceptTokens == { <<"a">>, <<"a","c","c","e","p","t">> }
EditTokens == { <<"e">>, <<"e","d","i","t">> }
RejectTokens == { <<"r">>, <<"r","e","j","e","c","t">> }

\* faulty variant: a reject token falls into the accept branch
NextStateRejectAccepts(c) ==
    IF c \in AcceptTokens \cup RejectTokens THEN "ACCEPTED"
    ELSE IF c \in EditTokens THEN "EDITING"
    ELSE "PRESENTED"

\* faulty variant: an answer that is no token is taken as accept
NextStateUnknownAccepts(c) ==
    IF c \in EditTokens THEN "EDITING"
    ELSE IF c \in RejectTokens THEN "REJECTED"
    ELSE "ACCEPTED"

\* where one answer takes the loop
NextState(c) ==
    IF c \in AcceptTokens THEN "ACCEPTED"
    ELSE IF c \in EditTokens THEN "EDITING"
    ELSE IF c \in RejectTokens THEN "REJECTED"
    ELSE "PRESENTED"

\* one answer at the prompt; REJECTED is sys.exit(0)
ReadChoice ==
    /\ pc = "PRESENTED"
    /\ inputs_read < MaxInputs
    /\ inputs_read' = inputs_read + 1
    /\ \E line \in Inputs :
          LET c == Lower(Strip(line))
              to == NextState(c)
          IN
          /\ typed' = line
          /\ choice' = c
          /\ IF to = "ACCEPTED"
             THEN /\ message' = commit_message
                  /\ pc' = "ACCEPTED"
                  /\ UNCHANGED <<stdout, exit_code, exit_msg>>
             ELSE IF to = "EDITING"
             THEN /\ pc' = "EDITING"
                  /\ UNCHANGED <<message, stdout, exit_code, exit_msg>>
             ELSE IF to = "REJECTED"
             THEN /\ stdout' = Append(stdout,
                        <<"C","o","m","m","i","t"," ","m","e","s","s","a","g","e"," ","r","e",
                          "j","e","c","t","e","d","."," ","N","o"," ","c","h","a","n","g","e",
                          "s"," ","c","o","m","m","i","t","t","e","d","."," ","E","x","i","t",
                          "i","n","g"," ","c","l","e","a","n","l","y",".">>)
                  /\ Exit(0, "")
                  /\ UNCHANGED message
             ELSE /\ stdout' = Append(stdout, <<"I","n","v","a","l","i","d"," ","c","h","o","i","c","e",
                                                "."," ","P","l","e","a","s","e"," ","e","n","t","e","r",
                                                " ","a",","," ","e",","," ","o","r"," ","r",".">>)
                  /\ UNCHANGED <<pc, message, exit_code, exit_msg>>
    /\ UNCHANGED <<args, use_mock, api_key, requests, diff, new_files, recent_commits,
                   prompt, models, chosen_model, raw_message, commit_message, edited,
                   calls>>

\* open_editor(commit_message), then commit_changes(edited): the temporary file is
\* written, the editor runs (or is not found), the file is read back in text mode
OpenEditor ==
    /\ pc = "EDITING"
    /\ \E outcome \in {"not_found", "ok", "failed"} :
       \E file \in (IF outcome = "not_found" THEN {commit_message}
                    ELSE {commit_message} \cup EditorTexts) :
          /\ calls' = Append(calls, Call("editor", commit_message, outcome))
          /\ stdout' = IF outcome = "not_found"
                       THEN Append(stdout, <<"E","d","i","t","o","r"," ","n","o","t"," ","f","o","u",
                                             "n","d"," ","-"," ","u","s","i","n","g"," ","o","r","i",
                                             "g","i","n","a","l"," ","m","e","s","s","a","g","e",".">>)
                       ELSE stdout
          /\ edited' = UniversalNewlines(file)
          /\ message' = UniversalNewlines(file)
    /\ pc' = "ACCEPTED"
    /\ UNCHANGED <<args, use_mock, api_key, requests, diff, new_files, recent_commits,
                   prompt, models, chosen_model, raw_message, commit_message, typed, choice,
                   exit_code, exit_msg, inputs_read>>

\* faulty variant: the dry-run flag is ignored
RunsCommitAlways(dry) == TRUE

\* whether commit_changes runs the commit subprocess
RunsCommit(dry) == ~dry

\* the line printed instead
DryRunLine(m) == <<"[","D","R","Y","-","R","U","N","]"," ","g","i","t"," ","c","o","m","m","i",
                   "t"," ","-","m"," ","\"">> \o m \o <<"\"">>

\* commit_changes(message, dry_run), then main() returns
CommitChanges ==
    /\ pc = "ACCEPTED"
    /\ IF ~RunsCommit(args.dry_run)
       THEN /\ stdout' = Append(stdout, DryRunLine(message))
            /\ Exit(0, "")
            /\ UNCHANGED calls
       ELSE \E ok \in BOOLEAN :
               IF ok
               THEN /\ calls' = Append(calls, Call("git commit -m", message, "ok"))
                    /\ stdout' = Append(stdout, <<"C","h","a","n","g","e","s"," ","c","o","m","m","i","t",
                                                  "t","e","d"," ","s","u","c","c","e","s","s","f","u","l",
                                                  "l","y","!">>)
                    /\ Exit(0, "")
               ELSE /\ calls' = Append(calls, Call("git commit -m", message, "failed"))
                    /\ Exit(1, "Error committing changes")
                    /\ UNCHANGED stdout
    /\ UNCHANGED <<args, use_mock, api_key, requests, diff, new_files, recent_commits,
                   prompt, models, chosen_model, raw_message, commit_message, typed, choice,
                   edited, message, inputs_read>>

Next ==
    \/ Start
    \/ GetStagedDiff
    \/ GetNewStagedFiles
    \/ CheckStaged
    \/ AppendNewFiles
    \/ GetRecentCommits
    \/ BuildPrompt
    \/ ResolveModel
    \/ CallModel
    \/ Clean
    \/ ReadChoice
    \/ OpenEditor
    \/ CommitChanges

Spec == Init /\ [][Next]_vars

\* ------------------------------------------- the pure functions on their own
\* build_prompt on every short diff and recent-commit text
PromptAlphabet == {" ", "\n", "a"}

InitPrompt ==
    /\ args = [version |-> FALSE, model |-> <<>>, dry_run |-> TRUE]
    /\ use_mock = TRUE /\ api_key = FALSE /\ requests = FALSE
    /\ pc = "build_prompt"
    /\ diff \in StringsUpTo(PromptAlphabet, MaxDiffLen)
    /\ recent_commits \in StringsUpTo(PromptAlphabet, MaxRecentLen)
    /\ new_files = <<>> /\ prompt = <<>>
    /\ models = <<>> /\ chosen_model = <<>> /\ raw_message = <<>>
    /\ commit_message = <<>> /\ typed = <<>> /\ choice = <<>> /\ edited = <<>> /\ message = <<>>
    /\ calls = <<>> /\ stdout = <<>> /\ exit_code = <<>> /\ exit_msg = ""
    /\ inputs_read = 0

SpecPrompt == InitPrompt /\ [][BuildPrompt]_vars

\* clean_commit_message on every short raw message
CleanAlphabet == {" ", "\"", "'", BackTick, "a"}

InitClean ==
    /\ args = [version |-> FALSE, model |-> <<>>, dry_run |-> TRUE]
    /\ use_mock = TRUE /\ api_key = FALSE /\ requests = FALSE
    /\ pc = "clean"
    /\ raw_message \in StringsUpTo(CleanAlphabet, MaxCleanLen)
    /\ diff = <<>> /\ recent_commits = <<>> /\ new_files = <<>> /\ prompt = <<>>
    /\ models = <<>> /\ chosen_model = <<>>
    /\ commit_message = <<>> /\ typed = <<>> /\ choice = <<>> /\ edited = <<>> /\ message = <<>>
    /\ calls = <<>> /\ stdout = <<>> /\ exit_code = <<>> /\ exit_msg = ""
    /\ inputs_read = 0

SpecClean == InitClean /\ [][Clean]_vars

\* ------------------------------------------------------------ properties
CommitCalls == {i \in 1..Len(calls) : calls[i].cmd = "git commit -m"}
GetCalls == {i \in 1..Len(calls) : calls[i].cmd = "GET /v1/models"}
PostCalls == {i \in 1..Len(calls) : calls[i].cmd = "POST /v1/messages"}
MockCalls == {i \in 1..Len(calls) : calls[i].cmd = "call_claude_api_mock"}
EditorCalls == {i \in 1..Len(calls) : calls[i].cmd = "editor"}
Recognised == AcceptTokens \cup EditTokens \cup RejectTokens

\* C1: the commit step is reached only after the answer accept or edit, and once a
\* reject token is typed, in any casing, the process has ended with exit status 0
\* and no commit was invoked at any point of the run.
C1_CommitOnlyAfterAcceptOrEdit ==
    /\ (pc = "ACCEPTED" \/ CommitCalls # {}) => choice \in AcceptTokens \cup EditTokens
    /\ typed \in { <<"r">>, <<"R">>, <<"r","e","j","e","c","t">>, <<"R","E","J","E","C","T">> }
          => pc = "exited" /\ exit_code = <<0>> /\ CommitCalls = {}

C1_Witness == typed = <<"R","E","J","E","C","T">> /\ pc = "exited" /\ inputs_read = 2

\* C2: when the collector found an empty staged diff and no newly added file, the
\* run has ended with exit status 1 and the "no staged changes" message, and the
\* two collecting commands are all it ever invoked: no GET, no POST, no mock call,
\* no commit.
C2_NoStagedChangesAborts ==
    (/\ Len(calls) >= 2
     /\ calls[2].cmd = "git diff --cached --name-only" /\ calls[2].result = "ok"
     /\ diff = <<>> /\ new_files = <<>>
     /\ pc # "check_staged")
    => /\ pc = "exited" /\ exit_code = <<1>>
       /\ exit_msg = "No staged changes found. Use 'git add' first."
       /\ Len(calls) = 2
       /\ GetCalls \cup PostCalls \cup MockCalls \cup CommitCalls = {}

C2_Witness ==
    /\ pc = "exited" /\ Len(calls) = 2 /\ diff = <<>> /\ new_files = <<>>
    /\ exit_msg = "No staged changes found. Use 'git add' first."

\* the paths of the lines `+++ b/<path>` of a diff
MarkerPaths(d) ==
    {SubSeq(l, Len(NewFileMarker) + 1, Len(l)) :
        l \in {SplitLines(d)[i] : i \in {k \in 1..Len(SplitLines(d)) :
                                            StartsWith(SplitLines(d)[k], NewFileMarker)}}}

\* C3: in mock mode, when the diff has a line `+++ b/<path>`, the suggested message
\* is `feat: update <path>`, a blank line and a bullet, and on the answer "a" the
\* commit is invoked with exactly that message.
C3_MockFeatUpdate ==
    (use_mock /\ MarkerPaths(diff) # {} /\ pc \in {"PRESENTED", "ACCEPTED", "EDITING", "exited"}
       /\ MockCalls # {})
    => /\ \E p \in MarkerPaths(diff) :
             StartsWith(commit_message, <<"f","e","a","t",":"," ","u","p","d","a","t","e"," ">> \o p \o <<"\n","\n","-"," ">>)
       /\ \A i \in CommitCalls : typed = <<"a">> => calls[i].arg = commit_message

\* C4: the message cleaner is idempotent: cleaning the cleaned message changes nothing.
C4_CleanIdempotent ==
    pc = "PRESENTED" => clean_commit_message(commit_message) = commit_message

InstructionText == <<"G","e","n","e","r","a","t","e"," ","a"," ","g","i","t"," ","c","o","m",
                     "m","i","t"," ","m","e","s","s","a","g","e"," ","f","o","l","l","o","w",
                     "i","n","g"," ","t","h","i","s"," ","s","t","r","u","c","t","u","r","e",
                     ":">>

\* C5: the prompt contains the diff text and the recent-commit text, each as an
\* unmodified contiguous substring, and the fixed instruction text.
C5_PromptVerbatim ==
    pc = "resolve_model"
    => /\ Contains(prompt, diff)
       /\ Contains(prompt, recent_commits)
       /\ Contains(prompt, InstructionText)

\* C6: with --dry-run no commit subprocess is ever invoked; once the loop has ended
\* on the accept or the edit path, the last line printed contains the message (the
\* suggested one, or the edited one) and the exit status is 0.
C6_DryRunNeverCommits ==
    args.dry_run =>
       /\ CommitCalls = {}
       /\ (pc = "exited" /\ choice \in AcceptTokens \cup EditTokens)
             => /\ exit_code = <<0>>
                /\ message = (IF choice \in AcceptTokens THEN commit_message ELSE edited)
                /\ stdout # <<>>
                /\ StartsWith(stdout[Len(stdout)], <<"[","D","R","Y","-","R","U","N","]">>)
                /\ Contains(stdout[Len(stdout)], message)

C6_Witness ==
    /\ args.dry_run /\ pc = "exited" /\ choice \in EditTokens
    /\ EditorCalls # {} /\ message # <<>>

FailedCalls ==
    {i \in 1..Len(calls) :
        /\ calls[i].result = "failed"
        /\ calls[i].cmd \in {"git diff --cached", "git diff --cached --name-only",
                             "git log -3", "git commit -m", "editor"}}

FatalMsg(cmd) ==
    IF cmd = "git diff --cached" THEN "Error getting git diff"
    ELSE IF cmd = "git diff --cached --name-only" THEN "Error getting new staged files"
    ELSE "Error committing changes"

C8_ReviewLoop ==
    [][/\ (pc = "PRESENTED" /\ inputs_read' # inputs_read
             /\ Lower(Strip(typed')) \notin Recognised)
          => /\ pc' = "PRESENTED" /\ commit_message' = commit_message
             /\ calls' = calls /\ message' = message
       /\ (pc = "PRESENTED" /\ inputs_read' # inputs_read
             /\ Lower(Strip(typed')) \in AcceptTokens)
          => pc' = "ACCEPTED" /\ message' = commit_message /\ calls' = calls
       /\ (pc = "PRESENTED" /\ inputs_read' # inputs_read
             /\ Lower(Strip(typed')) \in EditTokens)
          => pc' = "EDITING" /\ calls' = calls
       /\ (pc = "PRESENTED" /\ inputs_read' # inputs_read
             /\ Lower(Strip(typed')) \in RejectTokens)
          => pc' = "exited" /\ exit_code' = <<0>> /\ calls' = calls
       /\ pc = "PRESENTED" => inputs_read' # inputs_read
       /\ pc = "EDITING" => pc' = "ACCEPTED"
       /\ pc = "ACCEPTED" => pc' = "exited"
       /\ pc' = "PRESENTED" => pc \in {"clean", "PRESENTED"}
       /\ Cardinality(CommitCalls') <= 1
      ]_vars

C8_Witness ==
    /\ pc = "PRESENTED" /\ inputs_read = 1 /\ typed = <<"x">>
    /\ calls # <<>> /\ CommitCalls = {} /\ EditorCalls = {}

\* C9: on the edit path the commit step receives exactly what open_editor read
\* back, and when the editor binary is not found that text is the original,
\* unedited message, and the run goes on to the commit step.
C9_EditPathVerbatim ==
    \A i \in EditorCalls :
        /\ message = edited
        /\ \A j \in CommitCalls : calls[j].arg = edited
        /\ calls[i].result = "not_found"
              => edited = commit_message /\ pc \in {"ACCEPTED", "exited"}

\* the indices of the listed names with the vendor substring and the word w
ListedWith(ms, w) ==
    {i \in 1..Len(ms) : /\ Contains(Lower(EntryName(ms[i])), VendorName)
                        /\ Contains(Lower(EntryName(ms[i])), w)}

\* the id the listing resolves to
Expected(ms) ==
    IF ListedWith(ms, <<"s","o","n","n","e","t">>) # {} THEN EntryName(ms[Min(ListedWith(ms, <<"s","o","n","n","e","t">>))])
    ELSE IF ListedWith(ms, <<"o","p","u","s">>) # {} THEN EntryName(ms[Min(ListedWith(ms, <<"o","p","u","s">>))])
    ELSE IF ListedWith(ms, <<"h","a","i","k","u">>) # {} THEN EntryName(ms[Min(ListedWith(ms, <<"h","a","i","k","u">>))])
    ELSE IF ListedWith(ms, <<>>) # {} THEN EntryName(ms[Min(ListedWith(ms, <<>>))])
    ELSE DefaultModel

\* a failed listing call is followed by the POST, never by the end of the run
ListingFailureGoesOn ==
    \A i \in GetCalls :
        calls[i].result = "failed"
        => /\ models = <<>>
           /\ pc = "call_model" \/ (Len(calls) > i /\ calls[i + 1].cmd = "POST /v1/messages")

\* C10 as stated: the POST carries the --model value whenever one is given, and then
\* no GET is issued; otherwise it carries the listed name preferred in the order
\* sonnet, opus, haiku, any vendor name, or else the default id.  A failing listing
\* call does not end the run.  Mock mode issues neither request.
C10_ModelResolution ==
    /\ \A i \in PostCalls :
          calls[i].arg = (IF args.model # <<>> THEN args.model[1] ELSE Expected(models))
    /\ args.model # <<>> => GetCalls = {}
    /\ Cardinality(PostCalls) <= 1 /\ Cardinality(GetCalls) <= 1
    /\ ListingFailureGoesOn
    /\ use_mock => GetCalls = {} /\ PostCalls = {}

\* C10 as amended: the same, for a --model value that is given and not empty; an
\* empty --model value is handled as if none were given.
C10_ModelResolutionNonEmpty ==
    /\ \A i \in PostCalls :
          calls[i].arg = (IF Truthy(args.model) THEN args.model[1] ELSE Expected(models))
    /\ Truthy(args.model) => GetCalls = {}
    /\ Cardinality(PostCalls) <= 1 /\ Cardinality(GetCalls) <= 1
    /\ ListingFailureGoesOn
    /\ use_mock => GetCalls = {} /\ PostCalls = {}

C10_Witness ==
    /\ PostCalls # {} /\ GetCalls # {}
    /\ Len(models) = 2 /\ EntryName(models[1]) = <<"c","l","a","u","d","e","-","o","p","u","s","-","4">>
    /\ \E i \in PostCalls : calls[i].arg = <<"C","l","a","u","d","e","-","S","o","n","n","e","t","-",
                                             "4">>
====
